---- MODULE Spec2Model ----
(***************************************************************************)
(* Lint coordination of Vestby Prove: the request coordinators             *)
(* (HarperExtension, NorwegianExtension), the two worker hosts (the        *)
(* dual-dialect Harper worker and the Norwegian Typo worker) and the part  *)
(* of App that receives their results.                                     *)
(*                                                                         *)
(* Spec        the closed system: editor + coordinator + worker.           *)
(* WorkerSpec  a worker host alone, fed any interleaving of init, lint and *)
(*             dispose messages.                                           *)
(***************************************************************************)
EXTENDS Integers, Sequences, FiniteSets, TLC

VARIABLES
  kind,             \* "harper" | "norwegian": which extension/worker pair runs
  docText,          \* editorView.state.doc.textContent
  worker,           \* coordinator: "null" | "live" (the Worker handle)
  lastText,         \* coordinator: lastText
  version,          \* coordinator: version
  isReady,          \* coordinator: isReady
  debounceTimeout,  \* coordinator: pending debounce timer (its closure) or NoTimer
  initTimeout,      \* coordinator: lazy-init timer pending
  destroyed,        \* plugin view destroy() has run
  terminateTimeout, \* the 100 ms grace timer of destroy() is pending
  terminated,       \* worker.terminate() has run
  toWorker,         \* messages posted to the worker, not yet handled
  toMain,           \* messages posted by the worker, not yet handled
  wk,               \* the worker's module state and its suspended async functions
  lintResults,      \* App: lintResults (with the request it answers)
  spellcheckStatus, \* App: spellcheckStatus
  spellcheckLang,   \* App: spellcheckLang, "en" | "no" | "off"
  sentLog,          \* history: the versions of the lint requests the coordinator posted
  lastSent,         \* history: the last lint request the coordinator posted
  lastRecv,         \* history: the last message worker.onmessage handled
  envCount,         \* WorkerSpec: messages the environment has posted
  teardown,         \* history: the steps destroy() and its grace timer have taken
  fn                \* MergeSpec, GetPosSpec: the call of a pure function and its result

vars == <<kind, docText, worker, lastText, version, isReady, debounceTimeout,
          initTimeout, destroyed, terminateTimeout, terminated, toWorker,
          toMain, wk, lintResults, spellcheckStatus, spellcheckLang, sentLog,
          lastSent, lastRecv, envCount, teardown, fn>>

coordVars == <<worker, lastText, version, isReady, debounceTimeout,
               initTimeout, destroyed, terminateTimeout>>

-----------------------------------------------------------------------------
(* Bounds *)

MaxLen == 2        \* longest document text
MaxVersion == 2    \* cap of the coordinator's version counter
MaxMsgs == 3       \* WorkerSpec: messages the environment posts
MaxSpans == 2      \* MergeSpec: spans one engine flags in a text
MaxParas == 2      \* GetPosSpec: paragraphs of the document
MaxIssues == 2     \* RenderSpec: issues of a result list
MaxIgnored == 1    \* RenderSpec: spans the user has ignored
MaxTextLen == 6    \* LintTextSpec: characters of the text linted
MaxApplied == 2    \* SuggestSpec: suggestions applied and result lists received
MaxCycles == 2     \* IgnoreSpec: results messages accepted
MaxTabs == 3       \* TabSpec: tabs of the application that get opened

(* Program constants *)

MaxSuggestions == 5   \* typo.suggest(word, 5)
MinWordLength == 2    \* if (word.length < 2) continue

-----------------------------------------------------------------------------
(* Text *)

Chars == {"a", " "}

\* the documents: what has been typed of a text that starts with a space and
\* goes on with letters
Typed(n) == [i \in 1..n |-> IF i = 1 THEN " " ELSE "a"]
Texts == {Typed(n) : n \in 0..MaxLen}

IsSpace(c) == c = " "
IsLetter(c) == c = "a"

\* String.prototype.trim
RECURSIVE TrimLeft(_)
TrimLeft(t) == IF t # <<>> /\ IsSpace(Head(t)) THEN TrimLeft(Tail(t)) ELSE t

RECURSIVE TrimRight(_)
TrimRight(t) ==
  IF t # <<>> /\ IsSpace(t[Len(t)]) THEN TrimRight(SubSeq(t, 1, Len(t) - 1)) ELSE t

Trim(t) == TrimRight(TrimLeft(t))

\* the test without trim(): !text
IsBlankEmptyOnly(t) == t = <<>>

\* !text || text.trim().length === 0
IsBlank(t) == t = <<>> \/ Len(Trim(t)) = 0

-----------------------------------------------------------------------------
(* Messages *)

NoReq == [type |-> "none"]
InitMsg == [type |-> "init"]
DisposeMsg == [type |-> "dispose"]
ReadyMsg == [type |-> "ready"]
LintMsg(t, v) == [type |-> "lint", text |-> t, version |-> v]
\* `text` is not part of the payload: it names the request a response answers
ResultsMsg(r, req) ==
  [type |-> "results", results |-> r, version |-> req.version, text |-> req.text]
\* init failures carry no version (undefined)
InitErrorMsg == [type |-> "error", version |-> -1]
LintErrorMsg(req) == [type |-> "error", version |-> req.version, text |-> req.text]

NoTimer == [pending |-> FALSE]
Timer(t, v) == [pending |-> TRUE, text |-> t, version |-> v]

-----------------------------------------------------------------------------
(* Linting engines: opaque; a lint is one of a few issue lists *)

Issue(s, e, c, sg) ==
  [span |-> [start |-> s, end |-> e], category |-> c, suggestions |-> sg]

\* what one Harper linter may report on a text
EngineOutputs(t) == {<<>>, <<Issue(0, Len(t), "Spelling", <<"x">>)>>}

RECURSIVE Dedup(_)
\* Array.from(new Set(list)): first occurrences, in order
Dedup(list) ==
  IF list = <<>> THEN <<>>
  ELSE LET init == Dedup(SubSeq(list, 1, Len(list) - 1))
           x == list[Len(list)]
       IN IF \E i \in 1..Len(init) : init[i] = x THEN init ELSE Append(init, x)

\* a find that never finds
HasMatchNever(lint, list) == FALSE

\* list.find(l => l.span.start === lint.span.start && l.span.end === lint.span.end)
HasMatch(lint, list) == \E i \in 1..Len(list) : list[i].span = lint.span
findMatch(lint, list) ==
  list[CHOOSE i \in 1..Len(list) :
         /\ list[i].span = lint.span
         /\ \A j \in 1..(i - 1) : list[j].span # lint.span]

RECURSIVE ProcessAmerican(_, _)
\* americanFormatted.forEach(aLint => ...)
ProcessAmerican(a, b) ==
  IF a = <<>> THEN <<>>
  ELSE LET init == ProcessAmerican(SubSeq(a, 1, Len(a) - 1), b)
           aLint == a[Len(a)]
       IN IF HasMatch(aLint, b)
          THEN Append(init, [aLint EXCEPT !.suggestions =
                 Dedup(aLint.suggestions \o findMatch(aLint, b).suggestions)])
          ELSE IF aLint.category # "Spelling" THEN Append(init, aLint) ELSE init

RECURSIVE ProcessBritishKeepsSpelling(_, _)
\* britishFormatted.forEach without `if (bLint.category !== 'Spelling')`
ProcessBritishKeepsSpelling(b, a) ==
  IF b = <<>> THEN <<>>
  ELSE LET init == ProcessBritishKeepsSpelling(SubSeq(b, 1, Len(b) - 1), a)
           bLint == b[Len(b)]
       IN IF ~HasMatch(bLint, a) THEN Append(init, bLint) ELSE init

RECURSIVE ProcessBritishAddsAgain(_, _)
\* britishFormatted.forEach without `if (!aMatch)`
ProcessBritishAddsAgain(b, a) ==
  IF b = <<>> THEN <<>>
  ELSE LET init == ProcessBritishAddsAgain(SubSeq(b, 1, Len(b) - 1), a)
           bLint == b[Len(b)]
       IN IF bLint.category # "Spelling" THEN Append(init, bLint) ELSE init

RECURSIVE ProcessBritish(_, _)
\* britishFormatted.forEach(bLint => ...)
ProcessBritish(b, a) ==
  IF b = <<>> THEN <<>>
  ELSE LET init == ProcessBritish(SubSeq(b, 1, Len(b) - 1), a)
           bLint == b[Len(b)]
       IN IF ~HasMatch(bLint, a) /\ bLint.category # "Spelling"
          THEN Append(init, bLint) ELSE init

\* finalResults of the dual-dialect merge
MergeLints(a, b) == ProcessAmerican(a, b) \o ProcessBritish(b, a)

\* typo.check(word): the dictionary
Dictionary == {<<"a">>, <<"a", "a", "a">>}
TypoCheck(word) == word \in Dictionary
\* typo.suggest(word, 5) || []
TypoSuggest(word) ==
  LET found == <<"a", "aaa">>
  IN SubSeq(found, 1, IF Len(found) < MaxSuggestions THEN Len(found) ELSE MaxSuggestions)

RECURSIVE WordEnd(_, _)
\* end (exclusive, 1-based) of the run of letters that starts at i
WordEnd(t, i) == IF i <= Len(t) /\ IsLetter(t[i]) THEN WordEnd(t, i + 1) ELSE i

RECURSIVE ScanWords(_, _)
\* while ((match = wordRegex.exec(text)) !== null): the matches from 1-based i on,
\* each as [start, end) in 0-based offsets
ScanWords(t, i) ==
  IF i > Len(t) THEN <<>>
  ELSE IF IsLetter(t[i])
       THEN <<[start |-> i - 1, end |-> WordEnd(t, i) - 1]>> \o ScanWords(t, WordEnd(t, i))
       ELSE ScanWords(t, i + 1)

WordOf(t, m) == SubSeq(t, m.start + 1, m.end)

\* the matches lintText passes to typo.check
CheckedWords(t) ==
  SelectSeq(ScanWords(t, 1), LAMBDA m : ~(m.end - m.start < MinWordLength))

\* lintText reporting every word it checks, without typo.check
lintTextReportsChecked(t) ==
  IF Len(Trim(t)) = 0 THEN <<>>
  ELSE LET bad == CheckedWords(t)
       IN [i \in 1..Len(bad) |->
            Issue(bad[i].start, bad[i].end, "Spelling", TypoSuggest(WordOf(t, bad[i])))]

\* lintText(text), typo being loaded
lintText(t) ==
  IF Len(Trim(t)) = 0 THEN <<>>
  ELSE LET bad == SelectSeq(CheckedWords(t), LAMBDA m : ~TypoCheck(WordOf(t, m)))
       IN [i \in 1..Len(bad) |->
            Issue(bad[i].start, bad[i].end, "Spelling", TypoSuggest(WordOf(t, bad[i])))]

\* whether lintText(text) reaches the engine (typo.check) at all
LintTextCallsEngine(t) == Len(Trim(t)) # 0 /\ CheckedWords(t) # <<>>

-----------------------------------------------------------------------------
(* Worker hosts.  `wk` holds the worker module's variables                 *)
(*   americanLinter, britishLinter : "null" | "new" (constructed) | "ready" *)
(*                                   (setup() resolved)                     *)
(*   typo : "null" | "ready";  isInitializing, dictionaryLoaded             *)
(* the suspended async functions                                            *)
(*   initTask  : the init() that awaits setup()/fetch(), with the message   *)
(*               handler that awaits it (caller)                            *)
(*   lintTasks : the lint handlers that await Promise.all([lint, lint])     *)
(* the messages posted by the running step (out), and history               *)
(*   engineLog    : the lint requests handed to an engine                   *)
(*   served       : the lint requests that found the engines present        *)
(*   constructedA/B/T : engine instances constructed since the last dispose *)
(*   initOutcomes : how the init() runs that finished ended                 *)
(*   threw        : the lint requests on which an engine threw              *)
(*   disposed     : a dispose message has been handled                      *)
(*   readySince   : ready has been posted since the last dispose            *)
(*   late         : the lint requests received after a dispose              *)
(*   servedUnready: those of them that found the engines present before a   *)
(*                  ready had been posted again                             *)
(*   disposedInInit: the last dispose was handled while an init() was in    *)
(*                  flight, and no init() has been started since            *)

IdleTask == [pc |-> "idle", caller |-> NoReq]

WorkerInit ==
  [americanLinter |-> "null", britishLinter |-> "null", typo |-> "null",
   isInitializing |-> FALSE, dictionaryLoaded |-> FALSE,
   initTask |-> IdleTask, lintTasks |-> <<>>, out |-> <<>>,
   engineLog |-> {}, served |-> {}, constructedA |-> 0, constructedB |-> 0,
   constructedT |-> 0, initSignal |-> "none", initOutcomes |-> {},
   threw |-> {}, disposed |-> FALSE, readySince |-> FALSE, late |-> {},
   servedUnready |-> {}, disposedInInit |-> FALSE]

\* self.postMessage(m)
Post(s, m) == [s EXCEPT !.out = Append(@, m)]

\* self.postMessage({type: 'ready'}) / ({type: 'error', ...}) inside init()
Signal(s, m) ==
  [Post(s, m) EXCEPT !.initSignal = m.type,
                     !.readySince = IF m.type = "ready" THEN TRUE ELSE @]

\* history of a lint request that finds the engines present
Serve(s, m) ==
  [s EXCEPT !.served = @ \cup {m},
            !.servedUnready = IF m \in s.late /\ ~s.readySince THEN @ \cup {m} ELSE @]

\* history of a message being received
Receive(s, m) ==
  IF m.type = "dispose"
  THEN [s EXCEPT !.disposed = TRUE, !.readySince = FALSE,
                 !.disposedInInit = s.isInitializing]
  ELSE IF m.type = "lint" /\ s.disposed THEN [s EXCEPT !.late = @ \cup {m}]
  ELSE s

LintersPresent(s) == s.americanLinter # "null" /\ s.britishLinter # "null"

\* harper worker, onmessage 'lint' after `await init()`: the fast path for blank
\* text, the call of both engines, or the warning
HarperAfterInit(s, m) ==
  IF m.type # "lint" THEN s
  ELSE IF LintersPresent(s)
       THEN LET s1 == Serve(s, m)
            IN IF IsBlank(m.text)
               THEN Post(s1, ResultsMsg(<<>>, m))
               ELSE [s1 EXCEPT !.lintTasks = Append(@, m),
                               !.engineLog = @ \cup {m}]
       ELSE s

\* harper init(): finally { isInitializing = false }, then the awaiting handler
HarperInitFinally(s, caller) ==
  HarperAfterInit(
    [s EXCEPT !.isInitializing = FALSE, !.initTask = IdleTask,
              !.initOutcomes = @ \cup {s.initSignal}, !.initSignal = "none"],
    caller)

\* harper init(): if (americanLinter && britishLinter) postMessage ready
HarperInitEnd(s, caller) ==
  HarperInitFinally(IF LintersPresent(s) THEN Signal(s, ReadyMsg) ELSE s, caller)

\* harper init(): if (!britishLinter) { britishLinter = new ...; await setup() }
HarperInitBritish(s, caller) ==
  IF s.britishLinter = "null"
  THEN [s EXCEPT !.britishLinter = "new", !.constructedB = @ + 1,
                 !.initTask = [pc |-> "setupB", caller |-> caller]]
  ELSE HarperInitEnd(s, caller)

\* harper init() constructing the American linter without `if (!americanLinter)`
\* and without the return when both linters exist
HarperInitRebuilds(s, caller) ==
  IF s.isInitializing THEN HarperAfterInit(s, caller)
  ELSE [s EXCEPT !.isInitializing = TRUE, !.disposedInInit = FALSE,
                 !.americanLinter = "new", !.constructedA = @ + 1,
                 !.initTask = [pc |-> "setupA", caller |-> caller]]

\* harper init(), from its call to its first await or its return
HarperInit(s, caller) ==
  IF s.isInitializing THEN HarperAfterInit(s, caller)
  ELSE IF LintersPresent(s) THEN HarperAfterInit(s, caller)
  ELSE LET s1 == [s EXCEPT !.isInitializing = TRUE, !.disposedInInit = FALSE]
       IN IF s1.americanLinter = "null"
          THEN [s1 EXCEPT !.americanLinter = "new", !.constructedA = @ + 1,
                          !.initTask = [pc |-> "setupA", caller |-> caller]]
          ELSE HarperInitBritish(s1, caller)

\* harper init() resumes after `await ...setup()`; ok = setup() resolved
HarperInitResume(s, ok) ==
  LET caller == s.initTask.caller IN
  IF ~ok THEN HarperInitFinally(Signal(s, InitErrorMsg), caller)
  ELSE IF s.initTask.pc = "setupA"
       THEN HarperInitBritish(
              [s EXCEPT !.americanLinter = IF @ = "new" THEN "ready" ELSE @], caller)
       ELSE HarperInitEnd(
              [s EXCEPT !.britishLinter = IF @ = "new" THEN "ready" ELSE @], caller)

\* harper worker, self.onmessage
HarperOnMessage(s, m) ==
  IF m.type = "dispose"
  THEN [Receive(s, m) EXCEPT !.americanLinter = "null", !.britishLinter = "null",
                             !.constructedA = 0, !.constructedB = 0]
  ELSE HarperInit(Receive(s, m), m)

\* the catch of the lint handler posting the error without the request's version
HarperLintResumeUntagged(s, i, throws, a, b) ==
  LET req == s.lintTasks[i]
      s1 == [s EXCEPT !.lintTasks =
               SubSeq(@, 1, i - 1) \o SubSeq(@, i + 1, Len(@))]
  IN IF throws THEN Post([s1 EXCEPT !.threw = @ \cup {req}], InitErrorMsg)
     ELSE Post(s1, ResultsMsg(MergeLints(a, b), req))

\* harper worker, a lint handler resumes after `await Promise.all([...])`:
\* the engines threw, or reported a and b
HarperLintResume(s, i, throws, a, b) ==
  LET req == s.lintTasks[i]
      s1 == [s EXCEPT !.lintTasks =
               SubSeq(@, 1, i - 1) \o SubSeq(@, i + 1, Len(@))]
  IN IF throws THEN Post([s1 EXCEPT !.threw = @ \cup {req}], LintErrorMsg(req))
     ELSE Post(s1, ResultsMsg(MergeLints(a, b), req))

\* norwegian worker, onmessage 'lint' after `await init()`; throws = typo.check
\* throws when it is called
NorwegianAfterInit(s, m, throws) ==
  IF m.type # "lint" THEN s
  ELSE IF s.typo # "null" /\ s.dictionaryLoaded
       THEN LET s1 == [Serve(s, m) EXCEPT
                         !.engineLog = IF LintTextCallsEngine(m.text)
                                       THEN @ \cup {m} ELSE @]
            IN IF throws /\ LintTextCallsEngine(m.text)
               THEN Post([s1 EXCEPT !.threw = @ \cup {m}], LintErrorMsg(m))
               ELSE Post(s1, ResultsMsg(lintText(m.text), m))
       ELSE s

\* norwegian init(): finally { isInitializing = false }, then the awaiting handler
NorwegianInitFinally(s, caller, throws) ==
  NorwegianAfterInit(
    [s EXCEPT !.isInitializing = FALSE, !.initTask = IdleTask,
              !.initOutcomes = @ \cup {s.initSignal}, !.initSignal = "none"],
    caller, throws)

\* norwegian init(), from its call to its first await or its return
NorwegianInit(s, caller, throws) ==
  IF s.isInitializing THEN NorwegianAfterInit(s, caller, throws)
  ELSE IF s.dictionaryLoaded /\ s.typo # "null"
       THEN NorwegianAfterInit(s, caller, throws)
  ELSE [s EXCEPT !.isInitializing = TRUE, !.disposedInInit = FALSE,
                 !.initTask = [pc |-> "fetch", caller |-> caller]]

\* norwegian init() resumes after `await Promise.all([fetch, fetch])` (pc "fetch")
\* or after `await ...text()` (pc "text"); ok = the awaited promise resolved with
\* both responses ok
NorwegianInitResume(s, ok, throws) ==
  LET caller == s.initTask.caller IN
  IF ~ok THEN NorwegianInitFinally(Signal(s, InitErrorMsg), caller, throws)
  ELSE IF s.initTask.pc = "fetch"
       THEN [s EXCEPT !.initTask.pc = "text"]
       ELSE NorwegianInitFinally(
              Signal([s EXCEPT !.typo = "ready", !.constructedT = @ + 1,
                               !.dictionaryLoaded = TRUE], ReadyMsg),
              caller, throws)

\* norwegian worker, self.onmessage
NorwegianOnMessage(s, m, throws) ==
  IF m.type = "dispose"
  THEN [Receive(s, m) EXCEPT !.typo = "null", !.dictionaryLoaded = FALSE,
                             !.constructedT = 0]
  ELSE NorwegianInit(Receive(s, m), m, throws)

-----------------------------------------------------------------------------
(* Initial state: the plugin view has just been created *)

\* no pure function is being called
NoCall == [op |-> "none"]

NoResults == [type |-> "results", results |-> <<>>, version |-> -1, text |-> <<>>]
\* lastRecv: the type and version of the message handled; whether the view was
\* alive; whether the version differed from the coordinator's (stale); whether
\* lintResults changed; how many lint requests the handler posted; and fresh:
\* for results, its request carried the text the document has now; for ready,
\* the request posted carries the document's text and the current version
NoRecv ==
  [type |-> "none", version |-> -1, live |-> TRUE, stale |-> FALSE,
   fresh |-> TRUE, changed |-> FALSE, sent |-> 0]

Init ==
  /\ kind \in {"harper", "norwegian"}
  /\ docText = <<>>               \* a new document; restored content is an edit
  /\ worker = "null"
  /\ lastText = <<>>
  /\ version = 0
  /\ isReady = FALSE
  /\ debounceTimeout = NoTimer
  /\ initTimeout = TRUE           \* initTimeout = setTimeout(initWorker, ...)
  /\ destroyed = FALSE
  /\ terminateTimeout = FALSE
  /\ terminated = FALSE
  /\ toWorker = <<>>
  /\ toMain = <<>>
  /\ wk = WorkerInit
  /\ lintResults = NoResults
  /\ spellcheckStatus = "idle"
  /\ spellcheckLang = (IF kind = "harper" THEN "en" ELSE "no")
  /\ sentLog = <<>>
  /\ lastSent = [text |-> <<>>, version |-> -1, via |-> "none"]
  /\ lastRecv = NoRecv
  /\ envCount = 0
  /\ teardown = <<>>
  /\ fn = NoCall

-----------------------------------------------------------------------------
(* Worker steps *)

\* the messages a worker step posted reach the main thread's queue
Emit(s) ==
  /\ wk' = [s EXCEPT !.out = <<>>]
  /\ toMain' = toMain \o s.out

\* the worker handles the next message of its queue
WorkerReceive ==
  /\ ~terminated
  /\ toWorker # <<>>
  /\ toWorker' = Tail(toWorker)
  /\ IF kind = "harper"
     THEN Emit(HarperOnMessage(wk, Head(toWorker)))
     ELSE \E throws \in BOOLEAN : Emit(NorwegianOnMessage(wk, Head(toWorker), throws))
  /\ UNCHANGED <<kind, spellcheckLang, docText, coordVars, terminated, lintResults,
                 spellcheckStatus, sentLog, lastSent, lastRecv, envCount, teardown, fn>>

\* the promise init() awaits settles
WorkerInitResume ==
  /\ ~terminated
  /\ wk.initTask.pc # "idle"
  /\ \E ok \in BOOLEAN :
       IF kind = "harper"
       THEN Emit(HarperInitResume(wk, ok))
       ELSE \E throws \in BOOLEAN : Emit(NorwegianInitResume(wk, ok, throws))
  /\ UNCHANGED <<kind, spellcheckLang, docText, coordVars, terminated, toWorker, lintResults,
                 spellcheckStatus, sentLog, lastSent, lastRecv, envCount, teardown, fn>>

\* the Promise.all of a pending Harper lint settles
WorkerLintResume ==
  /\ ~terminated
  /\ \E i \in 1..Len(wk.lintTasks) :
       \E throws \in BOOLEAN :
         \E a \in EngineOutputs(wk.lintTasks[i].text) :
           \E b \in EngineOutputs(wk.lintTasks[i].text) :
             Emit(HarperLintResume(wk, i, throws, a, b))
  /\ UNCHANGED <<kind, spellcheckLang, docText, coordVars, terminated, toWorker, lintResults,
                 spellcheckStatus, sentLog, lastSent, lastRecv, envCount, teardown, fn>>

-----------------------------------------------------------------------------
(* Request coordinator: the plugin view of HarperExtension / NorwegianExtension *)

\* worker?.postMessage({type: 'lint', text, version})
PostLint(t, v, via) ==
  IF worker = "live"
  THEN /\ toWorker' = IF terminated THEN toWorker ELSE Append(toWorker, LintMsg(t, v))
       /\ sentLog' = Append(sentLog, [version |-> v, live |-> ~destroyed])
       /\ lastSent' = [text |-> t, version |-> v, via |-> via]
  ELSE UNCHANGED <<toWorker, sentLog, lastSent>>

\* initWorker, run by the lazy-init timer
initWorker ==
  /\ initTimeout
  /\ initTimeout' = FALSE
  /\ IF worker # "null"
     THEN UNCHANGED <<worker, spellcheckStatus, toWorker>>
     ELSE /\ worker' = "live"
          /\ spellcheckStatus' = "loading"
          /\ toWorker' = Append(toWorker, InitMsg)
  /\ UNCHANGED <<kind, spellcheckLang, docText, lastText, version, isReady, debounceTimeout,
                 destroyed, terminateTimeout, terminated, toMain, wk,
                 lintResults, sentLog, lastSent, lastRecv, envCount, teardown, fn>>

\* update(view) without `version++`
updateKeepsVersion(text) ==
  IF worker = "null" \/ ~isReady
  THEN UNCHANGED <<lastText, version, debounceTimeout>>
  ELSE IF text # lastText
       THEN /\ lastText' = text
            /\ version' = version
            /\ debounceTimeout' = Timer(text, version)
       ELSE UNCHANGED <<lastText, version, debounceTimeout>>

\* update(view) without `if (!worker || !isReady) return`
updateUnguarded(text) ==
  IF text # lastText
  THEN /\ version < MaxVersion
       /\ lastText' = text
       /\ version' = version + 1
       /\ debounceTimeout' = Timer(text, version + 1)
  ELSE UNCHANGED <<lastText, version, debounceTimeout>>

\* update(view) leaving a pending debounce timer in place
updateKeepsPendingTimer(text) ==
  IF worker = "null" \/ ~isReady
  THEN UNCHANGED <<lastText, version, debounceTimeout>>
  ELSE IF text # lastText
       THEN /\ version < MaxVersion
            /\ lastText' = text
            /\ version' = version + 1
            /\ debounceTimeout' = IF debounceTimeout.pending THEN debounceTimeout
                                  ELSE Timer(text, version + 1)
       ELSE UNCHANGED <<lastText, version, debounceTimeout>>

\* update(view): the text comparison, the version increment and the debounce
update(text) ==
  IF worker = "null" \/ ~isReady
  THEN UNCHANGED <<lastText, version, debounceTimeout>>
  ELSE IF text # lastText
       THEN /\ version < MaxVersion
            /\ lastText' = text
            /\ version' = version + 1
            /\ debounceTimeout' = Timer(text, version + 1)
       ELSE UNCHANGED <<lastText, version, debounceTimeout>>

\* a transaction that changes the document's text
EditText ==
  /\ ~destroyed
  /\ \E t \in Texts \ {docText} :
       /\ docText' = t
       /\ update(t)
  /\ UNCHANGED <<kind, spellcheckLang, worker, isReady, initTimeout, destroyed, terminateTimeout,
                 terminated, toWorker, toMain, wk, lintResults, spellcheckStatus,
                 sentLog, lastSent, lastRecv, envCount, teardown, fn>>

\* a transaction that leaves the text as it is (selection, marks, decorations)
Transaction ==
  /\ ~destroyed
  /\ update(docText)
  /\ UNCHANGED <<kind, spellcheckLang, docText, worker, isReady, initTimeout, destroyed,
                 terminateTimeout, terminated, toWorker, toMain, wk, lintResults,
                 spellcheckStatus, sentLog, lastSent, lastRecv, envCount, teardown, fn>>

\* the debounce timer fires: its closure posts the lint request
DebounceFire ==
  /\ debounceTimeout.pending
  /\ PostLint(debounceTimeout.text, debounceTimeout.version, "debounce")
  /\ debounceTimeout' = NoTimer
  /\ UNCHANGED <<kind, spellcheckLang, docText, worker, lastText, version, isReady, initTimeout,
                 destroyed, terminateTimeout, terminated, toMain, wk, lintResults,
                 spellcheckStatus, lastRecv, envCount, teardown, fn>>

\* the ready handler posting the remembered lastText instead of the document
OnReadyPostsLastText ==
  IF kind = "norwegian" /\ isReady
  THEN UNCHANGED <<isReady, spellcheckStatus, toWorker, sentLog, lastSent, lintResults>>
  ELSE /\ isReady' = TRUE
       /\ spellcheckStatus' = "ready"
       /\ PostLint(lastText, version, "ready")
       /\ UNCHANGED lintResults

\* worker.onmessage, type 'ready'
OnReady ==
  IF kind = "norwegian" /\ isReady
  THEN UNCHANGED <<isReady, spellcheckStatus, toWorker, sentLog, lastSent, lintResults>>
  ELSE /\ isReady' = TRUE
       /\ spellcheckStatus' = "ready"
       /\ PostLint(docText, version, "ready")
       /\ UNCHANGED lintResults

\* worker.onmessage, type 'error'
OnError(m) ==
  /\ spellcheckStatus' = "error"
  /\ UNCHANGED <<isReady, toWorker, sentLog, lastSent, lintResults>>

\* the results handler without the version check
OnResultsUnchecked(m) ==
  /\ lintResults' = m
  /\ UNCHANGED <<isReady, spellcheckStatus, toWorker, sentLog, lastSent>>

\* the results handler adding the new issues to the ones it holds
OnResultsMerges(m) ==
  /\ IF m.version # version
     THEN UNCHANGED lintResults
     ELSE lintResults' = [m EXCEPT !.results = lintResults.results \o m.results]
  /\ UNCHANGED <<isReady, spellcheckStatus, toWorker, sentLog, lastSent>>

\* worker.onmessage, the version check and type 'results'
OnResults(m) ==
  /\ IF m.version # version
     THEN UNCHANGED lintResults
     ELSE lintResults' = m
  /\ UNCHANGED <<isReady, spellcheckStatus, toWorker, sentLog, lastSent>>

\* worker.onmessage
CoordinatorOnMessage ==
  /\ ~terminated
  /\ toMain # <<>>
  /\ toMain' = Tail(toMain)
  /\ LET m == Head(toMain) IN
       /\ CASE m.type = "ready" -> OnReady
            [] m.type = "error" -> OnError(m)
            [] OTHER -> OnResults(m)
       /\ lastRecv' = [type |-> m.type,
                       version |-> IF m.type = "ready" THEN -1 ELSE m.version,
                       live |-> ~destroyed,
                       stale |-> m.type # "ready" /\ m.version # version,
                       fresh |-> CASE m.type = "results" -> m.text = docText
                                   [] m.type = "ready" ->
                                        /\ lastSent'.text = docText
                                        /\ lastSent'.version = version
                                   [] OTHER -> TRUE,
                       changed |-> lintResults' # lintResults,
                       sent |-> Len(sentLog') - Len(sentLog)]
  /\ UNCHANGED <<kind, spellcheckLang, docText, worker, lastText, version, debounceTimeout,
                 initTimeout, destroyed, terminateTimeout, terminated, wk,
                 envCount, teardown, fn>>

\* destroy() without `if (debounceTimeout) clearTimeout(debounceTimeout)`
DestroyKeepsDebounce ==
  /\ ~destroyed
  /\ destroyed' = TRUE
  /\ debounceTimeout' = debounceTimeout
  /\ initTimeout' = FALSE
  /\ IF kind = "harper"
     THEN /\ toWorker' = IF worker = "live" THEN Append(toWorker, DisposeMsg)
                         ELSE toWorker
          /\ terminateTimeout' = TRUE
          /\ worker' = worker
     ELSE IF worker = "live"
          THEN /\ toWorker' = Append(toWorker, DisposeMsg)
               /\ terminateTimeout' = TRUE
               /\ worker' = "null"
          ELSE UNCHANGED <<toWorker, terminateTimeout, worker>>
  /\ teardown' = teardown \o
       (IF initTimeout THEN <<"clearInit">> ELSE <<>>) \o
       (IF worker = "live" THEN <<"dispose">> ELSE <<>>)
  /\ UNCHANGED <<kind, spellcheckLang, docText, lastText, version, isReady, terminated, toMain,
                 wk, lintResults, spellcheckStatus, sentLog, lastSent, lastRecv,
                 envCount, fn>>

\* destroy() of the plugin view
Destroy ==
  /\ ~destroyed
  /\ destroyed' = TRUE
  /\ debounceTimeout' = NoTimer
  /\ initTimeout' = FALSE
  /\ IF kind = "harper"
     THEN /\ toWorker' = IF worker = "live" THEN Append(toWorker, DisposeMsg)
                         ELSE toWorker
          /\ terminateTimeout' = TRUE
          /\ worker' = worker
     ELSE IF worker = "live"
          THEN /\ toWorker' = Append(toWorker, DisposeMsg)
               /\ terminateTimeout' = TRUE
               /\ worker' = "null"
          ELSE UNCHANGED <<toWorker, terminateTimeout, worker>>
  /\ teardown' = teardown \o
       (IF debounceTimeout.pending THEN <<"clearDebounce">> ELSE <<>>) \o
       (IF initTimeout THEN <<"clearInit">> ELSE <<>>) \o
       (IF worker = "live" THEN <<"dispose">> ELSE <<>>)
  /\ UNCHANGED <<kind, spellcheckLang, docText, lastText, version, isReady, terminated, toMain,
                 wk, lintResults, spellcheckStatus, sentLog, lastSent, lastRecv,
                 envCount, fn>>

\* the language select sets spellcheckLang: the editor of the old language is
\* destroyed, its plugin view with it, and the effect on spellcheckLang empties
\* the issue list and shows 'loading'
SwitchLanguage ==
  /\ ~destroyed
  /\ \E lang \in {"en", "no", "off"} \ {spellcheckLang} : spellcheckLang' = lang
  /\ destroyed' = TRUE
  /\ debounceTimeout' = NoTimer
  /\ initTimeout' = FALSE
  /\ IF kind = "harper"
     THEN /\ toWorker' = IF worker = "live" THEN Append(toWorker, DisposeMsg)
                         ELSE toWorker
          /\ terminateTimeout' = TRUE
          /\ worker' = worker
     ELSE IF worker = "live"
          THEN /\ toWorker' = Append(toWorker, DisposeMsg)
               /\ terminateTimeout' = TRUE
               /\ worker' = "null"
          ELSE UNCHANGED <<toWorker, terminateTimeout, worker>>
  /\ teardown' = teardown \o
       (IF debounceTimeout.pending THEN <<"clearDebounce">> ELSE <<>>) \o
       (IF initTimeout THEN <<"clearInit">> ELSE <<>>) \o
       (IF worker = "live" THEN <<"dispose">> ELSE <<>>)
  /\ lintResults' = NoResults
  /\ spellcheckStatus' = "loading"
  /\ UNCHANGED <<kind, docText, lastText, version, isReady, terminated, toMain,
                 wk, sentLog, lastSent, lastRecv, envCount, fn>>

\* the grace timer of destroy() fires: worker.terminate()
Terminate ==
  /\ terminateTimeout
  /\ terminateTimeout' = FALSE
  /\ IF kind = "harper" /\ worker = "null"
     THEN UNCHANGED <<terminated, toWorker, toMain, teardown>>
     ELSE /\ terminated' = TRUE
          /\ toWorker' = <<>>
          /\ toMain' = <<>>
          /\ teardown' = Append(teardown, "terminate")
  /\ UNCHANGED <<kind, spellcheckLang, docText, worker, lastText, version, isReady,
                 debounceTimeout, initTimeout, destroyed, wk, lintResults,
                 spellcheckStatus, sentLog, lastSent, lastRecv, envCount, fn>>

Next ==
  \/ initWorker
  \/ EditText
  \/ Transaction
  \/ DebounceFire
  \/ CoordinatorOnMessage
  \/ Destroy
  \/ SwitchLanguage
  \/ Terminate
  \/ WorkerReceive
  \/ WorkerInitResume
  \/ WorkerLintResume

Spec == Init /\ [][Next]_vars

\* the same with the scheduling the platform gives: a timer that stays pending
\* fires, a posted message is delivered, a pending promise settles
LiveSpec ==
  /\ Spec
  /\ WF_vars(initWorker)
  /\ WF_vars(DebounceFire)
  /\ WF_vars(CoordinatorOnMessage)
  /\ WF_vars(WorkerReceive)
  /\ WF_vars(WorkerInitResume)
  /\ WF_vars(WorkerLintResume)

-----------------------------------------------------------------------------
(* A worker host alone: whoever holds the Worker posts init, lint and       *)
(* dispose messages in any order, at any time; its answers stay in toMain.  *)

\* the texts of the lint requests: empty, blank, and one with a word to check
EnvTexts == {Typed(0), Typed(1), Typed(3)}

WorkerOnlyInit ==
  /\ kind \in {"harper", "norwegian"}
  /\ docText = <<>>
  /\ worker = "null"
  /\ lastText = <<>>
  /\ version = 0
  /\ isReady = FALSE
  /\ debounceTimeout = NoTimer
  /\ initTimeout = FALSE
  /\ destroyed = FALSE
  /\ terminateTimeout = FALSE
  /\ terminated = FALSE
  /\ toWorker = <<>>
  /\ toMain = <<>>
  /\ wk = WorkerInit
  /\ lintResults = NoResults
  /\ spellcheckStatus = "idle"
  /\ spellcheckLang = (IF kind = "harper" THEN "en" ELSE "no")
  /\ sentLog = <<>>
  /\ lastSent = [text |-> <<>>, version |-> -1, via |-> "none"]
  /\ lastRecv = NoRecv
  /\ envCount = 0
  /\ teardown = <<>>
  /\ fn = NoCall

\* worker.postMessage(m) by the environment; a lint request is numbered by its
\* place among the messages
EnvPost ==
  /\ envCount < MaxMsgs
  /\ \E m \in {InitMsg, DisposeMsg} \cup {LintMsg(t, envCount) : t \in EnvTexts} :
       toWorker' = Append(toWorker, m)
  /\ envCount' = envCount + 1
  /\ UNCHANGED <<kind, spellcheckLang, docText, coordVars, terminated, toMain, wk, lintResults,
                 spellcheckStatus, sentLog, lastSent, lastRecv, teardown, fn>>

WorkerNext ==
  \/ EnvPost
  \/ WorkerReceive
  \/ WorkerInitResume
  \/ WorkerLintResume

WorkerSpec == WorkerOnlyInit /\ [][WorkerNext]_vars

-----------------------------------------------------------------------------
(* The dual-dialect merge alone: finalResults for any two engine outputs *)

\* every variable but fn, at rest
AtRest ==
  /\ kind = "harper"
  /\ docText = <<>>
  /\ worker = "null"
  /\ lastText = <<>>
  /\ version = 0
  /\ isReady = FALSE
  /\ debounceTimeout = NoTimer
  /\ initTimeout = FALSE
  /\ destroyed = FALSE
  /\ terminateTimeout = FALSE
  /\ terminated = FALSE
  /\ toWorker = <<>>
  /\ toMain = <<>>
  /\ wk = WorkerInit
  /\ lintResults = NoResults
  /\ spellcheckStatus = "idle"
  /\ spellcheckLang = (IF kind = "harper" THEN "en" ELSE "no")
  /\ sentLog = <<>>
  /\ lastSent = [text |-> <<>>, version |-> -1, via |-> "none"]
  /\ lastRecv = NoRecv
  /\ envCount = 0
  /\ teardown = <<>>

\* the spans an engine may flag, the categories and the suggestion lists
MergeSpans == {[start |-> 2 * k, end |-> 2 * k + 1] : k \in 0..(MaxSpans - 1)}
Categories == {"Spelling", "Grammar"}
SuggestionLists == {<<"x">>, <<"y", "x">>}
Issues ==
  {Issue(sp.start, sp.end, c, sg) :
     sp \in MergeSpans, c \in Categories, sg \in SuggestionLists}

\* what linter.lint(text) resolves to, formatted: a list of issues, in any
\* order, in which no span occurs twice (a span identifies an issue)
EngineLints ==
  {l \in UNION {[1..n -> Issues] : n \in 0..MaxSpans} :
     \A i \in 1..Len(l) : \A j \in 1..Len(l) : i # j => l[i].span # l[j].span}

MergeCall(a, b) ==
  [op |-> "merge", americanFormatted |-> a, britishFormatted |-> b,
   done |-> FALSE, finalResults |-> <<>>]

MergeInit ==
  /\ AtRest
  /\ fn \in {MergeCall(a, b) : a \in EngineLints, b \in EngineLints}

\* the merge of the lint handler, from americanFormatted / britishFormatted to
\* the finalResults it posts
RunMerge ==
  /\ fn.op = "merge"
  /\ ~fn.done
  /\ fn' = [fn EXCEPT !.done = TRUE,
                      !.finalResults = MergeLints(fn.americanFormatted,
                                                  fn.britishFormatted)]
  /\ UNCHANGED <<kind, spellcheckLang, docText, coordVars, terminated, toWorker, toMain, wk,
                 lintResults, spellcheckStatus, sentLog, lastSent, lastRecv,
                 envCount, teardown>>

MergeSpec == MergeInit /\ [][RunMerge]_vars

-----------------------------------------------------------------------------
(* App.getPos alone: from an offset in doc.textContent to a document position *)

\* a paragraph is the list of its inline leaves: a text node of n > 0
\* characters is n, a leaf that is not text (a hard break) is 0
Paragraphs == {<<>>, <<1>>, <<2>>, <<1, 2>>, <<1, 0, 1>>}

\* the documents: one paragraph or more (doc: block+)
Docs == UNION {[1..n -> Paragraphs] : n \in 1..MaxParas}

\* node.nodeSize of an inline leaf
LeafSize(leaf) == IF leaf = 0 THEN 1 ELSE leaf

RECURSIVE InlineSize(_)
\* the size of a paragraph's content
InlineSize(para) ==
  IF para = <<>> THEN 0 ELSE LeafSize(Head(para)) + InlineSize(Tail(para))

RECURSIVE ContentSize(_)
\* doc.content.size: each paragraph adds its content and two tokens
ContentSize(doc) ==
  IF doc = <<>> THEN 0 ELSE InlineSize(Head(doc)) + 2 + ContentSize(Tail(doc))

RECURSIVE ParaLeaves(_, _)
\* the (node, pos) pairs doc.descendants passes for the leaves of a paragraph
\* whose content starts at pos
ParaLeaves(para, pos) ==
  IF para = <<>> THEN <<>>
  ELSE <<[isText |-> Head(para) # 0, length |-> Head(para), pos |-> pos]>>
       \o ParaLeaves(Tail(para), pos + LeafSize(Head(para)))

RECURSIVE Descendants(_, _)
\* the leaves doc.descendants visits, in document order; pos is where the
\* first paragraph of doc starts
Descendants(doc, pos) ==
  IF doc = <<>> THEN <<>>
  ELSE ParaLeaves(Head(doc), pos + 1)
       \o Descendants(Tail(doc), pos + InlineSize(Head(doc)) + 2)

RECURSIVE TextLength(_)
\* doc.textContent.length
TextLength(leaves) ==
  IF leaves = <<>> THEN 0 ELSE Head(leaves).length + TextLength(Tail(leaves))

Min(x, y) == IF x < y THEN x ELSE y
Max(x, y) == IF x > y THEN x ELSE y

RECURSIVE Walk(_, _, _, _)
\* the callback of doc.descendants over the leaves left to visit: targetPos,
\* or -1 when no text node matches
Walk(leaves, currentTextPos, charOffset, isEnd) ==
  IF leaves = <<>> THEN -1
  ELSE LET node == Head(leaves) IN
       IF ~node.isText THEN Walk(Tail(leaves), currentTextPos, charOffset, isEnd)
       ELSE LET nodeEnd == currentTextPos + node.length IN
            IF IF isEnd THEN charOffset > currentTextPos /\ charOffset <= nodeEnd
                        ELSE charOffset >= currentTextPos /\ charOffset < nodeEnd
            THEN node.pos + (charOffset - currentTextPos)
            ELSE Walk(Tail(leaves), nodeEnd, charOffset, isEnd)

\* getPos returning the position it computed, without the Math.min/Math.max
getPosUnclamped(doc, charOffset, isEnd) ==
  IF charOffset = 0 /\ ~isEnd THEN 1
  ELSE LET targetPos == Walk(Descendants(doc, 0), 0, charOffset, isEnd)
       IN IF targetPos = -1 THEN charOffset + 1 ELSE targetPos

\* getPos(charOffset, isEnd), the editor holding doc
getPos(doc, charOffset, isEnd) ==
  IF charOffset = 0 /\ ~isEnd THEN 1
  ELSE LET targetPos == Walk(Descendants(doc, 0), 0, charOffset, isEnd)
       IN IF targetPos = -1
          THEN Min(Max(1, charOffset + 1), Max(1, ContentSize(doc) - 1))
          ELSE Min(Max(1, targetPos), Max(1, ContentSize(doc) - 1))

GetPosCall(doc, charOffset, isEnd) ==
  [op |-> "getPos", doc |-> doc, charOffset |-> charOffset, isEnd |-> isEnd,
   done |-> FALSE, ret |-> 0]

\* any document, either mode, and any offset from below the text to beyond it
\* (a paragraph holds three characters at most)
GetPosInit ==
  /\ AtRest
  /\ fn \in {GetPosCall(doc, charOffset, isEnd) :
               doc \in Docs, charOffset \in -1..(MaxParas * 3 + 1),
               isEnd \in BOOLEAN}

RunGetPos ==
  /\ fn.op = "getPos"
  /\ ~fn.done
  /\ fn' = [fn EXCEPT !.done = TRUE,
                      !.ret = getPos(fn.doc, fn.charOffset, fn.isEnd)]
  /\ UNCHANGED <<kind, spellcheckLang, docText, coordVars, terminated, toWorker, toMain, wk,
                 lintResults, spellcheckStatus, sentLog, lastSent, lastRecv,
                 envCount, teardown>>

GetPosSpec == GetPosInit /\ [][RunGetPos]_vars

-----------------------------------------------------------------------------
(* The Norwegian lintText alone, typo being loaded: any text of letters and *)
(* spaces                                                                   *)

LintTexts == UNION {[1..n -> Chars] : n \in 0..MaxTextLen}

LintTextCall(text) == [op |-> "lintText", text |-> text, done |-> FALSE, ret |-> <<>>]

LintTextInit ==
  /\ AtRest
  /\ fn \in {LintTextCall(text) : text \in LintTexts}

RunLintText ==
  /\ fn.op = "lintText"
  /\ ~fn.done
  /\ fn' = [fn EXCEPT !.done = TRUE, !.ret = lintText(fn.text)]
  /\ UNCHANGED <<kind, spellcheckLang, docText, coordVars, terminated, toWorker,
                 toMain, wk, lintResults, spellcheckStatus, sentLog, lastSent,
                 lastRecv, envCount, teardown>>

LintTextSpec == LintTextInit /\ [][RunLintText]_vars

-----------------------------------------------------------------------------
(* App alone, from a new issue list to the decorations: filteredResults, the *)
(* decoration effect and the plugin state's apply                            *)

\* the documents rendered: two characters in one paragraph, in two
\* paragraphs, or after an empty paragraph; and their text
RenderDocs == {<<<<2>>>>, <<<<1>>, <<1>>>>, <<<<>>, <<2>>>>}
RenderTexts == {<<"a", "b">>, <<"b", "a">>}

\* the issues a results message may hold
RenderIssues ==
  {Issue(0, 1, "Spelling", <<"x">>), Issue(1, 2, "Spelling", <<"x">>),
   Issue(1, 1, "Spelling", <<"x">>), Issue(0, 1, "Style", <<"x">>),
   Issue(1, 2, "WordChoice", <<"x">>), Issue(0, 1, "Capitalization", <<"IDE">>),
   Issue(1, 2, "Capitalization", <<"x">>)}
ResultLists == UNION {[1..n -> RenderIssues] : n \in 0..MaxIssues}

\* what the Ignorer button has stored
IgnoredSpan(s, e, t) == [start |-> s, end |-> e, text |-> t]
IgnoredSpans ==
  {IgnoredSpan(sp[1], sp[2], t) : sp \in {<<0, 1>>, <<1, 2>>}, t \in {<<"a">>, <<"b">>}}
IgnoredLists == UNION {[1..n -> IgnoredSpans] : n \in 0..MaxIgnored}

\* Decoration.inline(startPos, endPos, ...) of the issue with the given span
Decoration(startPos, endPos, span) ==
  [from |-> startPos, to |-> endPos, errorKey |-> span]

\* the decoration sets the plugin may hold before a render
OldDecorationSets == {<<>>, <<Decoration(1, 3, [start |-> 0, end |-> 2])>>}

RECURSIVE textBetween(_, _, _, _)
\* doc.textBetween(from, to) over the leaves left to visit, text being the
\* characters of those leaves: the characters at positions from..to-1
textBetween(leaves, text, from, to) ==
  IF leaves = <<>> THEN <<>>
  ELSE LET node == Head(leaves)
           n == node.length
           inside == SelectSeq([j \in 1..n |-> j],
                               LAMBDA j : /\ node.pos + (j - 1) >= from
                                          /\ node.pos + (j - 1) < to)
       IN [k \in 1..Len(inside) |-> text[inside[k]]]
          \o textBetween(Tail(leaves), SubSeq(text, n + 1, Len(text)), from, to)

\* array.includes(x)
Includes(list, x) == \E i \in 1..Len(list) : list[i] = x

\* the ignore test without `ignored.text === currentText`
IgnoreMatchesOffsets(ignored, result, doc, text) ==
  /\ ignored.start = result.span.start
  /\ ignored.end = result.span.end

\* the callback of ignoredSpans.some in filteredResults
IgnoreMatches(ignored, result, doc, text) ==
  LET start == getPos(doc, result.span.start, FALSE)
      end == getPos(doc, result.span.end, TRUE)
      currentText == textBetween(Descendants(doc, 0), text, start, end)
  IN /\ ignored.start = result.span.start
     /\ ignored.end = result.span.end
     /\ ignored.text = currentText

\* the filter callback without the Style / WordChoice test
KeepResultAnyCategory(result, ignoredSpans, doc, text) ==
  IF result.category = "Capitalization" /\ Includes(result.suggestions, "IDE")
  THEN FALSE
  ELSE ~\E k \in 1..Len(ignoredSpans) :
          IgnoreMatches(ignoredSpans[k], result, doc, text)

\* the callback of lintResults.filter in filteredResults
KeepResult(result, ignoredSpans, doc, text) ==
  IF result.category = "Style" \/ result.category = "WordChoice" THEN FALSE
  ELSE IF result.category = "Capitalization" /\ Includes(result.suggestions, "IDE")
       THEN FALSE
  ELSE ~\E k \in 1..Len(ignoredSpans) :
          IgnoreMatches(ignoredSpans[k], result, doc, text)

\* filteredResults, the editor being there and the spellcheck on
filteredResults(lintResultList, ignoredSpans, doc, text) ==
  SelectSeq(lintResultList, LAMBDA result : KeepResult(result, ignoredSpans, doc, text))

RECURSIVE DecorationsUnvalidated(_, _)
\* filteredResults.forEach of the decoration effect without the validation
DecorationsUnvalidated(filtered, doc) ==
  IF filtered = <<>> THEN <<>>
  ELSE LET result == filtered[Len(filtered)]
       IN Append(DecorationsUnvalidated(SubSeq(filtered, 1, Len(filtered) - 1), doc),
                 Decoration(getPos(doc, result.span.start, FALSE),
                            getPos(doc, result.span.end, TRUE), result.span))

RECURSIVE Decorations(_, _)
\* filteredResults.forEach of the decoration effect: the decorations pushed
Decorations(filtered, doc) ==
  IF filtered = <<>> THEN <<>>
  ELSE LET init == Decorations(SubSeq(filtered, 1, Len(filtered) - 1), doc)
           result == filtered[Len(filtered)]
           startPos == getPos(doc, result.span.start, FALSE)
           endPos == getPos(doc, result.span.end, TRUE)
       IN IF startPos >= 1 /\ endPos > startPos /\ endPos < ContentSize(doc)
          THEN Append(init, Decoration(startPos, endPos, result.span))
          ELSE init

\* the meta of the transaction the decoration effect dispatches
SetDecorations(filtered, doc) ==
  IF Len(filtered) = 0
  THEN [type |-> "set-decorations", decorations |-> <<>>]
  ELSE [type |-> "set-decorations", decorations |-> Decorations(filtered, doc)]

\* apply adding the new decorations to the set it held
applyKeepsOld(meta, oldState) ==
  IF meta.type = "set-decorations" THEN oldState \o meta.decorations ELSE oldState

\* the plugin state's apply(tr, oldState) for a transaction that carries meta
\* and leaves the document alone
apply(meta, oldState) ==
  IF meta.type = "set-decorations" THEN meta.decorations ELSE oldState

RenderCall(doc, text, results, ignoredSpans, oldState) ==
  [op |-> "render", doc |-> doc, text |-> text, lintResults |-> results,
   ignoredSpans |-> ignoredSpans, oldState |-> oldState, done |-> FALSE,
   filteredResults |-> <<>>, decorations |-> oldState]

RenderInit ==
  /\ AtRest
  /\ fn \in {RenderCall(doc, text, results, ignoredSpans, oldState) :
               doc \in RenderDocs, text \in RenderTexts, results \in ResultLists,
               ignoredSpans \in IgnoredLists, oldState \in OldDecorationSets}

\* setLintResults(results): filteredResults is recomputed, the decoration
\* effect runs and its transaction is applied
RunRender ==
  /\ fn.op = "render"
  /\ ~fn.done
  /\ LET filtered == filteredResults(fn.lintResults, fn.ignoredSpans, fn.doc, fn.text)
     IN fn' = [fn EXCEPT !.done = TRUE,
                         !.filteredResults = filtered,
                         !.decorations = apply(SetDecorations(filtered, fn.doc),
                                               fn.oldState)]
  /\ UNCHANGED <<kind, spellcheckLang, docText, coordVars, terminated, toWorker, toMain, wk,
                 lintResults, spellcheckStatus, sentLog, lastSent, lastRecv,
                 envCount, teardown>>

RenderSpec == RenderInit /\ [][RunRender]_vars

-----------------------------------------------------------------------------
(* App alone, the suggestion buttons of the issue list: a document of one   *)
(* paragraph, the issues of its last lint cycle, and the user applying      *)
(* suggestions while edits and results come in                              *)

\* the document of one paragraph that holds the text
ParagraphDoc(text) == IF text = <<>> THEN <<<<>>>> ELSE <<<<Len(text)>>>>

\* result.suggestions of an issue: a shorter and a longer replacement
SuggestionTexts == <<<<"a">>, <<"a", "a", "a">>>>

\* the issues of a lint cycle on the text: its words, each with suggestions
IssuesOn(text) ==
  LET words == ScanWords(text, 1)
  IN [i \in 1..Len(words) |->
        Issue(words[i].start, words[i].end, "Spelling", SuggestionTexts)]

\* insertContentAt({from, to}, suggestion) on the one-paragraph document
insertContentAt(text, from, to, suggestion) ==
  IF from > to THEN text
  ELSE SubSeq(text, 1, from - 1) \o suggestion \o SubSeq(text, to, Len(text))

\* text: the document; linted: the text the listed issues were reported on;
\* replaced / reported: the text the last suggestion replaced and the text
\* its issue was reported on
SuggestCall(text) ==
  [op |-> "suggest", text |-> text, linted |-> text, lintResults |-> IssuesOn(text),
   applied |-> 0, replaced |-> <<>>, reported |-> <<>>]

SuggestInit ==
  /\ AtRest
  /\ fn \in {SuggestCall(text) : text \in LintTexts}

\* onClick of a suggestion button of a listed issue
ApplySuggestion ==
  /\ fn.op = "suggest"
  /\ fn.applied < MaxApplied
  /\ \E i \in 1..Len(fn.lintResults) :
       \E k \in 1..Len(fn.lintResults[i].suggestions) :
         LET result == fn.lintResults[i]
             doc == ParagraphDoc(fn.text)
             start == getPos(doc, result.span.start, FALSE)
             end == getPos(doc, result.span.end, TRUE)
         IN fn' = [fn EXCEPT
                     !.text = insertContentAt(fn.text, start, end, result.suggestions[k]),
                     !.applied = @ + 1,
                     !.replaced = textBetween(Descendants(doc, 0), fn.text, start, end),
                     !.reported = SubSeq(fn.linted, result.span.start + 1,
                                         result.span.end)]
  /\ UNCHANGED <<kind, spellcheckLang, docText, coordVars, terminated, toWorker,
                 toMain, wk, lintResults, spellcheckStatus, sentLog, lastSent,
                 lastRecv, envCount, teardown>>

\* the results of a lint of the document's text arrive: setLintResults
ResultsArrive ==
  /\ fn.op = "suggest"
  /\ fn.linted # fn.text
  /\ fn' = [fn EXCEPT !.linted = fn.text, !.lintResults = IssuesOn(fn.text)]
  /\ UNCHANGED <<kind, spellcheckLang, docText, coordVars, terminated, toWorker,
                 toMain, wk, lintResults, spellcheckStatus, sentLog, lastSent,
                 lastRecv, envCount, teardown>>

SuggestNext == ApplySuggestion \/ ResultsArrive

SuggestSpec == SuggestInit /\ [][SuggestNext]_vars

-----------------------------------------------------------------------------
(* App alone, the issue list over several lint cycles: lintResults,         *)
(* ignoredSpans, focusedErrorKey and the list shown                          *)

NoKey == [start |-> -1, end |-> -1]

\* the result lists of the cycles: the two words of the text, each flagged or
\* not, in any order
WordIssues == {Issue(0, 1, "Spelling", <<"x">>), Issue(1, 2, "Spelling", <<"x">>)}
CycleResults == UNION {[1..n -> WordIssues] : n \in 0..MaxIssues}

\* lintResults, ignoredSpans and focusedErrorKey as useState creates them
IgnoreCall(doc, text) ==
  [op |-> "ignore", doc |-> doc, text |-> text, lintResults |-> <<>>,
   ignoredSpans |-> <<>>, filteredResults |-> <<>>, focusedErrorKey |-> NoKey,
   cycles |-> 0]

IgnoreInit ==
  /\ AtRest
  /\ fn \in {IgnoreCall(doc, text) : doc \in RenderDocs, text \in RenderTexts}

IgnoreFrame ==
  UNCHANGED <<kind, spellcheckLang, docText, coordVars, terminated, toWorker,
              toMain, wk, lintResults, spellcheckStatus, sentLog, lastSent,
              lastRecv, envCount, teardown>>

\* onResults emptying the ignore list and the focus with each new list
ResultsAcceptedForgets ==
  /\ fn.op = "ignore"
  /\ fn.cycles < MaxCycles
  /\ \E results \in CycleResults :
       fn' = [fn EXCEPT !.lintResults = results,
                        !.cycles = @ + 1,
                        !.ignoredSpans = <<>>,
                        !.focusedErrorKey = NoKey,
                        !.filteredResults =
                           filteredResults(results, <<>>, fn.doc, fn.text)]
  /\ IgnoreFrame

\* onResults: setLintResults(results), and filteredResults recomputed
ResultsAccepted ==
  /\ fn.op = "ignore"
  /\ fn.cycles < MaxCycles
  /\ \E results \in CycleResults :
       fn' = [fn EXCEPT !.lintResults = results,
                        !.cycles = @ + 1,
                        !.filteredResults =
                           filteredResults(results, fn.ignoredSpans, fn.doc, fn.text)]
  /\ IgnoreFrame

\* onClick of the Ignorer button of a listed issue, and filteredResults
\* recomputed
IgnoreClick ==
  /\ fn.op = "ignore"
  /\ Len(fn.ignoredSpans) < MaxIgnored
  /\ \E i \in 1..Len(fn.filteredResults) :
       LET result == fn.filteredResults[i]
           start == getPos(fn.doc, result.span.start, FALSE)
           end == getPos(fn.doc, result.span.end, TRUE)
           ignored == Append(fn.ignoredSpans,
                        IgnoredSpan(result.span.start, result.span.end,
                          textBetween(Descendants(fn.doc, 0), fn.text, start, end)))
       IN fn' = [fn EXCEPT !.ignoredSpans = ignored,
                           !.filteredResults =
                              filteredResults(fn.lintResults, ignored, fn.doc, fn.text)]
  /\ IgnoreFrame

\* onClick of the card of a listed issue: setFocusedErrorKey, the selection
\* set to the issue's range, and handleSelectionUpdate on the new selection
CardClick ==
  /\ fn.op = "ignore"
  /\ \E i \in 1..Len(fn.filteredResults) :
       LET from == getPos(fn.doc, fn.filteredResults[i].span.start, FALSE)
           under(r) == /\ from >= getPos(fn.doc, r.span.start, FALSE)
                       /\ from <= getPos(fn.doc, r.span.end, TRUE)
           found == SelectSeq(fn.filteredResults, under)
       IN fn' = [fn EXCEPT !.focusedErrorKey =
                   IF found # <<>> THEN found[1].span
                   ELSE fn.filteredResults[i].span]
  /\ fn'.focusedErrorKey # fn.focusedErrorKey
  /\ IgnoreFrame

\* the user retypes the two characters the other way round; filteredResults
\* does not depend on the document and stays as it is
RetypeText ==
  /\ fn.op = "ignore"
  /\ \E text \in RenderTexts \ {fn.text} : fn' = [fn EXCEPT !.text = text]
  /\ IgnoreFrame

IgnoreNext == ResultsAccepted \/ IgnoreClick \/ CardClick \/ RetypeText

IgnoreSpec == IgnoreInit /\ [][IgnoreNext]_vars

-----------------------------------------------------------------------------
(* Duplicate tab detection: the effect of App in each tab, the tabs talking *)
(* over the BroadcastChannel 'vestby-prove-tab'                              *)
(*   pc : "unopened" | "created" (new BroadcastChannel done, ping not yet   *)
(*        posted) | "mounted" (effect done) | "unmounted" (cleanup run)      *)
(*   channelOpen, isActive, isDuplicateTab : as in the effect                *)
(*   inbox : the messages queued for the tab's channel                       *)
(*   present : history, the tabs whose channel was open when the tab's       *)
(*             channel was created; pinged : history, the tabs its ping was  *)
(*             delivered to; pongedUnmounted : history, it has posted a pong *)
(*             after its cleanup ran                                         *)

Tabs == 1..MaxTabs

NewTab ==
  [pc |-> "unopened", channelOpen |-> FALSE, isActive |-> FALSE,
   isDuplicateTab |-> FALSE, inbox |-> <<>>, present |-> {}, pinged |-> {},
   pongedUnmounted |-> FALSE]

TabsCall == [op |-> "tabs", tabs |-> [t \in Tabs |-> NewTab], opened |-> <<>>]

TabInit ==
  /\ AtRest
  /\ fn = TabsCall

TabFrame ==
  UNCHANGED <<kind, spellcheckLang, docText, coordVars, terminated, toWorker,
              toMain, wk, lintResults, spellcheckStatus, sentLog, lastSent,
              lastRecv, envCount, teardown>>

\* the tabs a message posted by tab t is delivered to: every other open
\* channel of the name
Receivers(tabs, t) == {u \in Tabs \ {t} : tabs[u].channelOpen}

\* channel.postMessage(data) by tab t
Broadcast(tabs, t, data) ==
  [u \in Tabs |-> IF u \in Receivers(tabs, t)
                  THEN [tabs[u] EXCEPT !.inbox = Append(@, data)]
                  ELSE tabs[u]]

\* the effect, first part: channel = new BroadcastChannel(...), isActive =
\* true, channel.onmessage = ...
TabCreateChannel(t) ==
  /\ fn.op = "tabs"
  /\ fn.tabs[t].pc = "unopened"
  /\ \A u \in Tabs : u < t => fn.tabs[u].pc # "unopened"
  /\ fn' = [fn EXCEPT
              !.tabs[t] = [@ EXCEPT !.pc = "created", !.channelOpen = TRUE,
                                    !.isActive = TRUE,
                                    !.present = Receivers(fn.tabs, t)],
              !.opened = Append(@, t)]
  /\ TabFrame

\* the effect, second part: channel.postMessage('ping')
TabPing(t) ==
  /\ fn.op = "tabs"
  /\ fn.tabs[t].pc = "created"
  /\ fn' = [fn EXCEPT
              !.tabs = [Broadcast(fn.tabs, t, "ping") EXCEPT
                          ![t] = [@ EXCEPT !.pc = "mounted",
                                           !.pinged = Receivers(fn.tabs, t)]]]
  /\ TabFrame

\* channel.onmessage of tab t, for the next message of its channel
TabOnMessage(t) ==
  /\ fn.op = "tabs"
  /\ fn.tabs[t].pc \in {"mounted", "unmounted"}
  /\ fn.tabs[t].channelOpen
  /\ fn.tabs[t].inbox # <<>>
  /\ LET data == Head(fn.tabs[t].inbox)
         rest == [fn.tabs EXCEPT ![t] = [@ EXCEPT !.inbox = Tail(@)]]
     IN fn' = [fn EXCEPT !.tabs =
                 IF data = "ping" /\ fn.tabs[t].isActive
                 THEN [Broadcast(rest, t, "pong") EXCEPT
                         ![t] = [@ EXCEPT !.pongedUnmounted =
                                            @ \/ fn.tabs[t].pc = "unmounted"]]
                 ELSE IF data = "pong" /\ fn.tabs[t].isActive
                      THEN [rest EXCEPT ![t] = [@ EXCEPT !.isDuplicateTab = TRUE]]
                      ELSE rest]
  /\ TabFrame

\* the cleanup leaving isActive and the channel as they are
TabCloseKeepsChannel(t) ==
  /\ fn.op = "tabs"
  /\ fn.tabs[t].pc = "mounted"
  /\ fn' = [fn EXCEPT !.tabs[t] = [@ EXCEPT !.pc = "unmounted"]]
  /\ TabFrame

\* the tab is closed, the effect's cleanup: isActive = false; channel.close()
TabClose(t) ==
  /\ fn.op = "tabs"
  /\ fn.tabs[t].pc = "mounted"
  /\ fn' = [fn EXCEPT !.tabs[t] = [@ EXCEPT !.pc = "unmounted",
                                            !.isActive = FALSE,
                                            !.channelOpen = FALSE,
                                            !.inbox = <<>>]]
  /\ TabFrame

TabNext ==
  \E t \in Tabs :
    \/ TabCreateChannel(t)
    \/ TabPing(t)
    \/ TabOnMessage(t)
    \/ TabClose(t)

TabSpec == TabInit /\ [][TabNext]_vars

\* the same with the scheduling the browser gives: the effect runs to its
\* end and a message queued for an open channel is handled
TabLiveSpec ==
  /\ TabSpec
  /\ \A t \in Tabs : WF_vars(TabPing(t)) /\ WF_vars(TabOnMessage(t))

-----------------------------------------------------------------------------
(* Properties *)

\* C1: a results message whose version differs from the coordinator's version
\* at receipt is discarded, whatever the order of arrival: the issue set held
\* by the UI changes only through a results message of the current version.
C1_StaleResultsDiscarded ==
  /\ (lastRecv.type = "results" /\ lastRecv.stale) => ~lastRecv.changed
  /\ lastRecv.changed => (lastRecv.type = "results" /\ ~lastRecv.stale)

\* a response to an older request arrived after a newer one had been accepted
C1_Witness ==
  /\ lastRecv.type = "results"
  /\ lastRecv.stale
  /\ lintResults.version >= 0
  /\ lastRecv.version < lintResults.version

\* C2: whenever a coordinator accepts a results message, the text its request
\* carried is the editor's current text.
C2_AcceptedResultsAreCurrent ==
  (lastRecv.type = "results" /\ ~lastRecv.stale) => lastRecv.fresh

\* C3: the versions of the lint requests a coordinator sends during its
\* document session (until destroy) are strictly increasing.
C3_SentVersionsIncrease ==
  \A i \in 1..Len(sentLog) : \A j \in 1..Len(sentLog) :
    (i < j /\ sentLog[i].live /\ sentLog[j].live)
      => sentLog[i].version < sentLog[j].version

\* the initial lint and two debounced lints have been sent
C3_Witness ==
  /\ Len(sentLog) >= 3
  /\ \A i \in 1..3 : sentLog[i].live

\* C4: while the coordinator is Ready, a burst of text changes leads to one
\* lint request carrying the text after the last change: once no debounce
\* timer is pending, the last request sent carries the document's text.
C4_BurstEndsWithFinalText ==
  (isReady /\ ~destroyed /\ worker = "live" /\ ~debounceTimeout.pending)
    => lastSent.text = docText

\* C5: init() is idempotent: since the worker's last dispose, at most one
\* engine instance per dialect (Harper) and at most one Typo instance
\* (Norwegian) has been constructed, whatever init and lint messages arrived
\* while an initialization was in flight or after it succeeded.
C5_NoDuplicateEngines ==
  /\ wk.constructedA <= 1
  /\ wk.constructedB <= 1
  /\ wk.constructedT <= 1

\* a lint message was handled while the first initialization was still in
\* flight (its init() call returned at the isInitializing guard)
C5_Witness ==
  /\ wk.isInitializing
  /\ wk.initOutcomes = {}
  /\ wk.served # {}
  /\ wk.constructedA = 1
  /\ wk.constructedB = 1

\* C6: every initialization that starts ends with a signal, ready or error;
\* none finishes without having posted either.
C6_InitAlwaysSignals == "none" \notin wk.initOutcomes

\* C7: no lint request is sent, and no debounce timer is scheduled, before the
\* coordinator has received ready.
C7_NoLintBeforeReady ==
  ~isReady =>
    /\ sentLog = <<>>
    /\ ~debounceTimeout.pending
    /\ \A i \in 1..Len(toWorker) : toWorker[i].type # "lint"

\* the text was changed while the worker was still initializing
C7_Witness ==
  /\ ~isReady
  /\ worker = "live"
  /\ wk.isInitializing
  /\ docText # <<>>

\* C8 as stated: every ready a coordinator receives makes it send exactly one
\* lint request with the document's text and the current version.
C8_EveryReadySendsLint ==
  lastRecv.type = "ready" => (lastRecv.sent = 1 /\ lastRecv.fresh)

\* C8, amended: a coordinator that has not been torn down sends, on receiving
\* ready, exactly one lint request with the document's current text and the
\* coordinator's current version.
C8_ReadySendsInitialLint ==
  (lastRecv.type = "ready" /\ lastRecv.live) => (lastRecv.sent = 1 /\ lastRecv.fresh)

\* ready was received by a live coordinator whose document is not empty, and the
\* initial lint is on its way
C8_Witness ==
  /\ lastRecv.type = "ready"
  /\ lastRecv.live
  /\ lastSent.via = "ready"
  /\ lastSent.text # <<>>
  /\ lastSent.text = docText
  /\ toWorker # <<>>

\* C9: an update whose text equals the text of the most recently issued lint
\* request leaves the version, the debounce timer and the requests sent alone.
C9_SameTextUpdateIsNoOp ==
  [][((EditText \/ Transaction) /\ sentLog # <<>> /\ docText' = lastSent.text)
       => UNCHANGED <<version, debounceTimeout, sentLog>>]_vars

\* C10: a lint request with empty or whitespace-only text that finds the
\* engines present is answered by results with an empty list and the request's
\* version, and is never handed to an engine.
C10_BlankTextFastPath ==
  \A r \in wk.served :
    (\A k \in 1..Len(r.text) : r.text[k] = " ") =>
      /\ r \notin wk.engineLog
      /\ \E i \in 1..Len(toMain) : toMain[i] = ResultsMsg(<<>>, r)
      /\ \A i \in 1..Len(toMain) :
           (toMain[i].type \in {"results", "error"} /\ toMain[i].version = r.version)
             => toMain[i] = ResultsMsg(<<>>, r)

\* a whitespace-only request and an empty one were served
C10_Witness ==
  /\ \E r \in wk.served : r.text = Typed(1)
  /\ \E r \in wk.served : r.text = Typed(0)

\* C11: an issue whose span only one engine flags is in the merged output if
\* and only if its category is not Spelling (and then it is there unchanged): a
\* Spelling issue of one engine alone yields no issue for its span, a Grammar
\* issue of one engine alone is always kept.
C11_SingleEngineKeptIffNotSpelling ==
  (fn.op = "merge" /\ fn.done) =>
    LET a == fn.americanFormatted
        b == fn.britishFormatted
        out == fn.finalResults
        Alone(x, other) == \A j \in 1..Len(other) : other[j].span # x.span
        Kept(x) == \E k \in 1..Len(out) : out[k].span = x.span
        Right(x, other) ==
          Alone(x, other) =>
            /\ Kept(x) <=> x.category # "Spelling"
            /\ \A k \in 1..Len(out) : out[k].span = x.span => out[k] = x
    IN /\ \A i \in 1..Len(a) : Right(a[i], b)
       /\ \A i \in 1..Len(b) : Right(b[i], a)

\* the first engine alone flagged a span as Spelling, the second alone another
\* span as Grammar: only the second is reported
C11_Witness ==
  /\ fn.op = "merge" /\ fn.done
  /\ Len(fn.americanFormatted) = 1
  /\ Len(fn.britishFormatted) = 1
  /\ fn.americanFormatted[1].category = "Spelling"
  /\ fn.britishFormatted[1].category = "Grammar"
  /\ fn.americanFormatted[1].span # fn.britishFormatted[1].span
  /\ fn.finalResults = fn.britishFormatted

\* C12: a span both engines flag has exactly one issue in the merged output:
\* the first engine's issue, with the suggestions of the first engine followed
\* by those of the second engine that the first did not give, none repeated.
C12_AgreedIssueOnceWithUnion ==
  (fn.op = "merge" /\ fn.done) =>
    LET a == fn.americanFormatted
        b == fn.britishFormatted
        out == fn.finalResults
        Elems(q) == {q[n] : n \in 1..Len(q)}
    IN \A i \in 1..Len(a) : \A j \in 1..Len(b) :
         a[i].span = b[j].span =>
           /\ Cardinality({k \in 1..Len(out) : out[k].span = a[i].span}) = 1
           /\ \A k \in 1..Len(out) :
                out[k].span = a[i].span =>
                  LET sg == out[k].suggestions IN
                  /\ out[k].category = a[i].category
                  /\ Elems(sg) = Elems(a[i].suggestions) \cup Elems(b[j].suggestions)
                  /\ \A m \in 1..Len(sg) : \A n \in 1..Len(sg) :
                       m # n => sg[m] # sg[n]
                  /\ SubSeq(sg, 1, Len(a[i].suggestions)) = a[i].suggestions

\* both engines flagged one span, the second with a suggestion the first did
\* not give and one it gave
C12_Witness ==
  /\ fn.op = "merge" /\ fn.done
  /\ \E i \in 1..Len(fn.americanFormatted) : \E j \in 1..Len(fn.britishFormatted) :
       /\ fn.americanFormatted[i].span = fn.britishFormatted[j].span
       /\ fn.americanFormatted[i].suggestions = <<"x">>
       /\ fn.britishFormatted[j].suggestions = <<"y", "x">>
       /\ fn.britishFormatted[j].category = "Grammar"
       /\ \E k \in 1..Len(fn.finalResults) :
            fn.finalResults[k].suggestions = <<"x", "y">>

\* C13: a lint request on which the engine threw is answered by one error
\* message carrying the request's version and by no results; the worker goes
\* on answering: every request that found the engines present and on which
\* the engine did not throw has, once handled, results with its version.
C13_EngineThrowPostsTaggedError ==
  LET Answers(r, t) ==
        {i \in 1..Len(toMain) : toMain[i].type = t /\ toMain[i].version = r.version}
      Pending(r) == \E i \in 1..Len(wk.lintTasks) : wk.lintTasks[i] = r
  IN /\ \A r \in wk.threw :
          /\ Cardinality(Answers(r, "error")) = 1
          /\ Answers(r, "results") = {}
          /\ \E i \in 1..Len(toMain) : toMain[i] = LintErrorMsg(r)
     /\ \A r \in wk.served \ wk.threw :
          ~Pending(r) => (Cardinality(Answers(r, "results")) = 1
                          /\ Answers(r, "error") = {})

\* the engine threw on one request and then linted a later one
C13_Witness ==
  \E r1 \in wk.threw : \E r2 \in wk.engineLog \ wk.threw :
    /\ r1.version < r2.version
    /\ \E i \in 1..Len(toMain) : \E j \in 1..Len(toMain) :
         /\ i < j
         /\ toMain[i] = LintErrorMsg(r1)
         /\ toMain[j].type = "results" /\ toMain[j].version = r2.version

\* C14: an error message of a lint request whose version is not the
\* coordinator's current version changes neither the reported status nor the
\* issue set.
C14_StaleErrorDiscarded ==
  [][(/\ CoordinatorOnMessage
      /\ Head(toMain).type = "error"
      /\ Head(toMain).version >= 0
      /\ Head(toMain).version # version)
       => UNCHANGED <<spellcheckStatus, lintResults>>]_vars

\* C15: after an initialization has failed (and none has succeeded), engine
\* loading runs again only on an explicit init message, never on a lint.
C15_NoRetryWithoutInit ==
  ("error" \in wk.initOutcomes /\ "ready" \notin wk.initOutcomes
     /\ wk.initTask.pc # "idle")
    => wk.initTask.caller.type = "init"

\* C16: a lint request received after a dispose gets no results unless ready
\* has been posted again before the request is processed.
C16_NoResultsAfterDisposeUntilReady ==
  \A r \in wk.servedUnready :
    \A i \in 1..Len(toMain) :
      ~(toMain[i].type = "results" /\ toMain[i].version = r.version)

\* C17: a lint message handled while the engines are not initialized posts
\* nothing and leaves the engine state as it was.
C17_LintOnUninitializedIsNoOp ==
  [][(/\ WorkerReceive
      /\ Head(toWorker).type = "lint"
      /\ IF kind = "harper" THEN ~LintersPresent(wk)
                            ELSE ~(wk.typo # "null" /\ wk.dictionaryLoaded))
       => /\ toMain' = toMain
          /\ wk'.americanLinter = wk.americanLinter
          /\ wk'.britishLinter = wk.britishLinter
          /\ wk'.typo = wk.typo
          /\ wk'.dictionaryLoaded = wk.dictionaryLoaded
          /\ wk'.isInitializing = wk.isInitializing]_vars

\* C18: destroy() cancels the pending debounce and lazy-init timers, then
\* posts dispose if there is a worker, and the worker is terminated only later,
\* by the grace timer: after destroy no debounce or init timer is pending (none
\* fires), the cancellations precede the dispose, and a terminate is preceded
\* by the dispose.
C18_TeardownOrder ==
  LET At(step) == {i \in 1..Len(teardown) : teardown[i] = step} IN
  /\ destroyed => (~debounceTimeout.pending /\ ~initTimeout)
  /\ terminated => At("terminate") # {}
  /\ \A i \in At("terminate") : \E j \in At("dispose") : j < i
  /\ \A i \in At("clearDebounce") \cup At("clearInit") :
       \A j \in At("dispose") \cup At("terminate") : i < j

\* a view with a pending debounce timer was destroyed, and its worker terminated
C18_Witness ==
  /\ terminated
  /\ teardown = <<"clearDebounce", "dispose", "terminate">>
  /\ sentLog # <<>>

\* C19: for every document, offset and mode, getPos returns a position p with
\* 1 <= p <= max(1, doc.content.size - 1); when no text leaf matches the
\* offset, p is offset + 1 clamped into that interval.
C19_GetPosInRange ==
  (fn.op = "getPos" /\ fn.done) =>
    LET t == fn.charOffset
        size == ContentSize(fn.doc)
        hi == IF size - 1 > 1 THEN size - 1 ELSE 1
        leaves == SelectSeq(Descendants(fn.doc, 0), LAMBDA n : n.isText)
        cursorStart(i) == TextLength(SubSeq(leaves, 1, i - 1))
        cursorEnd(i) == cursorStart(i) + leaves[i].length
        Matches(i) == IF fn.isEnd THEN cursorStart(i) < t /\ t <= cursorEnd(i)
                                  ELSE cursorStart(i) <= t /\ t < cursorEnd(i)
        raw == t + 1
    IN /\ 1 <= fn.ret
       /\ fn.ret <= hi
       /\ (\A i \in 1..Len(leaves) : ~Matches(i))
            => fn.ret = (IF raw < 1 THEN 1 ELSE IF raw > hi THEN hi ELSE raw)

\* an offset that no leaf matches, beyond the document's last position, was
\* mapped to that last position
C19_Witness ==
  /\ fn.op = "getPos" /\ fn.done
  /\ fn.doc = <<<<1>>, <<>>>>
  /\ fn.charOffset = 4
  /\ fn.ret = 4

\* C20: getPos follows the leaf walk: in start-mode it returns
\* leafStart + (t - cursorStart) for the first text leaf with
\* cursorStart <= t < cursorEnd, in end-mode for the first text leaf with
\* cursorStart < t <= cursorEnd.
C20_LeafWalkMapping ==
  (fn.op = "getPos" /\ fn.done) =>
    LET t == fn.charOffset
        leaves == SelectSeq(Descendants(fn.doc, 0), LAMBDA n : n.isText)
        cursorStart(i) == TextLength(SubSeq(leaves, 1, i - 1))
        cursorEnd(i) == cursorStart(i) + leaves[i].length
        Matches(i) == IF fn.isEnd THEN cursorStart(i) < t /\ t <= cursorEnd(i)
                                  ELSE cursorStart(i) <= t /\ t < cursorEnd(i)
    IN \A i \in 1..Len(leaves) :
         (Matches(i) /\ \A j \in 1..(i - 1) : ~Matches(j))
           => fn.ret = leaves[i].pos + (t - cursorStart(i))


\* the range a decoration of the issue would cover, and whether it passes
\* the three bounds
MappedRange(doc, result) ==
  [from |-> getPos(doc, result.span.start, FALSE),
   to |-> getPos(doc, result.span.end, TRUE)]

\* C21: every decoration a render creates has startPos >= 1, endPos >
\* startPos and endPos < doc.content.size; a listed issue whose mapped range
\* breaks one of these gets no decoration, and the other listed issues are
\* still decorated, in their order.
C21_DecorationsAreValid ==
  (fn.op = "render" /\ fn.done) =>
    LET size == ContentSize(fn.doc)
        ok(r) == LET m == MappedRange(fn.doc, r)
                 IN m.from >= 1 /\ m.to > m.from /\ m.to < size
        shown == SelectSeq(fn.filteredResults, ok)
    IN /\ \A i \in 1..Len(fn.decorations) :
            /\ fn.decorations[i].from >= 1
            /\ fn.decorations[i].to > fn.decorations[i].from
            /\ fn.decorations[i].to < size
       /\ Len(fn.decorations) = Len(shown)
       /\ \A i \in 1..Len(shown) :
            /\ fn.decorations[i].errorKey = shown[i].span
            /\ fn.decorations[i].from = MappedRange(fn.doc, shown[i]).from
            /\ fn.decorations[i].to = MappedRange(fn.doc, shown[i]).to

\* a render of two listed issues, the first with an empty mapped range: only
\* the second is decorated
C21_Witness ==
  /\ fn.op = "render" /\ fn.done
  /\ Len(fn.filteredResults) = 2
  /\ fn.filteredResults[1].span = [start |-> 1, end |-> 1]
  /\ fn.filteredResults[2].span = [start |-> 0, end |-> 1]
  /\ Len(fn.decorations) = 1
  /\ fn.decorations[1].errorKey = [start |-> 0, end |-> 1]

\* C22: a render replaces the plugin's decoration set as a whole: the set
\* after it holds only decorations of issues of the current filtered list,
\* none of the set held before, and an empty filtered list leaves an empty
\* set.
C22_RenderReplacesDecorations ==
  (fn.op = "render" /\ fn.done) =>
    /\ Len(fn.decorations) <= Len(fn.filteredResults)
    /\ \A i \in 1..Len(fn.decorations) :
         \E j \in 1..Len(fn.filteredResults) :
           /\ fn.decorations[i].errorKey = fn.filteredResults[j].span
           /\ fn.decorations[i].from = MappedRange(fn.doc, fn.filteredResults[j]).from
           /\ fn.decorations[i].to = MappedRange(fn.doc, fn.filteredResults[j]).to
    /\ (fn.filteredResults = <<>> => fn.decorations = <<>>)

\* the plugin held a decoration, the new issue list is filtered down to
\* nothing, and the render leaves the empty set
C22_Witness ==
  /\ fn.op = "render" /\ fn.done
  /\ fn.oldState # <<>>
  /\ fn.lintResults # <<>>
  /\ fn.filteredResults = <<>>
  /\ fn.decorations = <<>>

\* C23: lintResults is empty or exactly the result list of one accepted
\* results message: it changes only by being emptied or by being replaced as a
\* whole with the results message being handled, whose version is the
\* coordinator's; nothing of the list held before is kept.
C23_ResultsReplacedWhole ==
  [][lintResults' # lintResults =>
       \/ lintResults' = NoResults
       \/ /\ toMain # <<>>
          /\ Head(toMain).type = "results"
          /\ Head(toMain).version = version
          /\ lintResults' = Head(toMain)]_vars

\* a later accepted results message with no issue replaced the list of a text
\* that had one
C23_Witness ==
  /\ lastRecv.type = "results"
  /\ lastRecv.changed
  /\ lintResults.version = 2
  /\ lintResults.results = <<>>
  /\ Len(lintResults.text) = 2

\* C24: an issue the category rules let through is held back by the ignore
\* list if and only if some ignored span has the issue's start, the issue's
\* end and, as text, the document's current text in the issue's mapped range.
C24_IgnoreMatchesSpanAndText ==
  (fn.op = "render" /\ fn.done) =>
    \A i \in 1..Len(fn.lintResults) :
      LET r == fn.lintResults[i]
          m == MappedRange(fn.doc, r)
          current == textBetween(Descendants(fn.doc, 0), fn.text, m.from, m.to)
          suppressed == \A j \in 1..Len(fn.filteredResults) : fn.filteredResults[j] # r
          matched == \E k \in 1..Len(fn.ignoredSpans) :
                       /\ fn.ignoredSpans[k].start = r.span.start
                       /\ fn.ignoredSpans[k].end = r.span.end
                       /\ fn.ignoredSpans[k].text = current
      IN r.category \in {"Spelling", "Capitalization"} /\ r.suggestions = <<"x">>
           => (suppressed <=> matched)

\* the word "a" was ignored at offsets 0..1 and an edit has moved it to 1..2:
\* the issue at its new offsets and the issue on the word now at 0..1 are
\* both listed
C24_Witness ==
  /\ fn.op = "render" /\ fn.done
  /\ fn.text = <<"b", "a">>
  /\ fn.ignoredSpans = <<IgnoredSpan(0, 1, <<"a">>)>>
  /\ fn.lintResults = <<Issue(0, 1, "Spelling", <<"x">>), Issue(1, 2, "Spelling", <<"x">>)>>
  /\ fn.filteredResults = fn.lintResults

\* filtered holds elements of all, in the order they have there
IsSubsequence(filtered, all) ==
  \E f \in [1..Len(filtered) -> 1..Len(all)] :
    /\ \A j \in 1..Len(filtered) : filtered[j] = all[f[j]]
    /\ \A j \in 1..Len(filtered) : \A k \in 1..Len(filtered) : j < k => f[j] < f[k]

\* some ignored span has the issue's start and end and the document's current
\* text in the issue's mapped range
MatchesIgnoredSpan(r) ==
  LET m == MappedRange(fn.doc, r)
      current == textBetween(Descendants(fn.doc, 0), fn.text, m.from, m.to)
  IN \E k \in 1..Len(fn.ignoredSpans) :
       /\ fn.ignoredSpans[k].start = r.span.start
       /\ fn.ignoredSpans[k].end = r.span.end
       /\ fn.ignoredSpans[k].text = current

\* C25 as stated: the filtered list never holds an issue of category 'Style'
\* or 'WordChoice', every issue of any other category that matches no ignored
\* span is kept, and the kept issues are in the order of the result list.
C25_OnlyAllowlistDrops ==
  (fn.op = "render" /\ fn.done) =>
    /\ \A j \in 1..Len(fn.filteredResults) :
         fn.filteredResults[j].category \notin {"Style", "WordChoice"}
    /\ \A i \in 1..Len(fn.lintResults) :
         (/\ fn.lintResults[i].category \notin {"Style", "WordChoice"}
          /\ ~MatchesIgnoredSpan(fn.lintResults[i]))
           => \E j \in 1..Len(fn.filteredResults) :
                fn.filteredResults[j] = fn.lintResults[i]
    /\ IsSubsequence(fn.filteredResults, fn.lintResults)

\* C25, amended: the filtered list never holds an issue of category 'Style'
\* or 'WordChoice', nor a 'Capitalization' issue that suggests 'IDE'; every
\* other issue that matches no ignored span is kept, and the kept issues are
\* in the order of the result list.
C25_AllowlistAndIDEDrop ==
  (fn.op = "render" /\ fn.done) =>
    LET dropped(r) ==
          \/ r.category \in {"Style", "WordChoice"}
          \/ /\ r.category = "Capitalization"
             /\ \E k \in 1..Len(r.suggestions) : r.suggestions[k] = "IDE"
    IN /\ \A j \in 1..Len(fn.filteredResults) : ~dropped(fn.filteredResults[j])
       /\ \A i \in 1..Len(fn.lintResults) :
            (~dropped(fn.lintResults[i]) /\ ~MatchesIgnoredSpan(fn.lintResults[i]))
              => \E j \in 1..Len(fn.filteredResults) :
                   fn.filteredResults[j] = fn.lintResults[i]
       /\ IsSubsequence(fn.filteredResults, fn.lintResults)

\* of two 'Capitalization' issues with nothing ignored, the one that suggests
\* 'IDE' is dropped and the other is kept
C25_Witness ==
  /\ fn.op = "render" /\ fn.done
  /\ fn.ignoredSpans = <<>>
  /\ fn.lintResults = <<Issue(0, 1, "Capitalization", <<"IDE">>),
                        Issue(1, 2, "Capitalization", <<"x">>)>>
  /\ fn.filteredResults = <<Issue(1, 2, "Capitalization", <<"x">>)>>

\* C26: whenever spellcheckStatus is 'error', in a view that has not been
\* destroyed, the issue list is empty (nothing of an earlier lint cycle is
\* left to count or decorate).
C26_ErrorShowsNoIssues ==
  (spellcheckStatus = "error" /\ ~destroyed) => lintResults.results = <<>>

\* C27: every lint request is sent with the version the coordinator's
\* counter has at that moment, and a debounce timer that is pending after a
\* step carries the version the counter has then.
C27_SentVersionIsCurrent ==
  [][/\ Len(sentLog') > Len(sentLog)
          => sentLog'[Len(sentLog')].version = version
     /\ debounceTimeout'.pending => debounceTimeout'.version = version']_vars

\* two increments in one debounce window: the request of version 1 was never
\* sent, the timer that fired sent version 2, the counter's value
C27_Witness ==
  /\ lastSent.via = "debounce"
  /\ lastSent.version = 2
  /\ version = 2
  /\ Len(sentLog) = 2
  /\ sentLog[1].version = 0

\* C28: for every document with a text leaf, getPos of offset 0 in start-mode
\* returns the position at which the first text leaf starts, which is what
\* the leaf walk finds for offset 0.
C28_ShortcutEqualsWalk ==
  (fn.op = "getPos" /\ fn.done /\ fn.charOffset = 0 /\ ~fn.isEnd) =>
    LET leaves == SelectSeq(Descendants(fn.doc, 0), LAMBDA n : n.isText)
    IN leaves # <<>> => fn.ret = leaves[1].pos

\* C29: once the language has been switched, handling a message of the
\* previous language's worker changes neither the issue list nor the status.
C29_LateMessagesChangeNothing ==
  [][(/\ spellcheckLang # (IF kind = "harper" THEN "en" ELSE "no")
      /\ toMain # <<>>
      /\ toMain' = Tail(toMain))
       => UNCHANGED <<lintResults, spellcheckStatus>>]_vars

\* C30: a coordinator whose destroy() has run sends no lint request: every
\* request in the log was sent by a view that had not been destroyed.
C30_NoLintAfterDestroy ==
  \A i \in 1..Len(sentLog) : sentLog[i].live

\* [start, end) is a maximal run of letters of the text
IsWordOf(text, start, end) ==
  /\ 0 <= start /\ start < end /\ end <= Len(text)
  /\ \A k \in (start + 1)..end : text[k] = "a"
  /\ start = 0 \/ text[start] # "a"
  /\ end = Len(text) \/ text[end + 1] # "a"

\* C39: the issues lintText returns have 0 <= start < end <= length of the
\* text, each span is a maximal run of letters that the dictionary rejects,
\* the spans are strictly increasing without overlap, every issue has category
\* 'Spelling' and at most 5 suggestions, and no word the dictionary accepts is
\* reported.
C39_LintTextIssuesWellFormed ==
  (fn.op = "lintText" /\ fn.done) =>
    /\ \A i \in 1..Len(fn.ret) :
         LET r == fn.ret[i] IN
           /\ IsWordOf(fn.text, r.span.start, r.span.end)
           /\ SubSeq(fn.text, r.span.start + 1, r.span.end) \notin Dictionary
           /\ r.category = "Spelling"
           /\ Len(r.suggestions) <= 5
    /\ \A i \in 1..(Len(fn.ret) - 1) :
         fn.ret[i].span.end <= fn.ret[i + 1].span.start

\* a text with an accepted word between two rejected ones: the two rejected
\* words are reported, in their order
C39_Witness ==
  /\ fn.op = "lintText" /\ fn.done
  /\ fn.text = <<"a", "a", " ", "a", " ", "a", "a">>
     \/ fn.text = <<"a", "a", " ", "a", "a">>
  /\ Len(fn.ret) = 2
  /\ fn.ret[1].span = [start |-> 0, end |-> 2]

\* C40: a word of 1 or 2 characters is never reported as an issue.
C40_ShortWordsNeverReported ==
  (fn.op = "lintText" /\ fn.done) =>
    \A i \in 1..Len(fn.ret) : fn.ret[i].span.end - fn.ret[i].span.start > 2

\* the spans of the issues of a list
SpansOf(list) == {list[i].span : i \in 1..Len(list)}

\* C38: when neither engine reports two issues on one span, the merged list
\* holds at most one issue per span, and its set of spans is the one the merge
\* yields with the two engines' outputs exchanged.
C38_MergedSpansUnique ==
  (/\ fn.op = "merge" /\ fn.done
   /\ Cardinality(SpansOf(fn.americanFormatted)) = Len(fn.americanFormatted)
   /\ Cardinality(SpansOf(fn.britishFormatted)) = Len(fn.britishFormatted)) =>
    /\ \A i \in 1..Len(fn.finalResults) : \A j \in 1..Len(fn.finalResults) :
         i # j => fn.finalResults[i].span # fn.finalResults[j].span
    /\ SpansOf(fn.finalResults) =
         SpansOf(MergeLints(fn.britishFormatted, fn.americanFormatted))

\* both engines flag the first span with different issues and only the
\* British one flags the second, as Grammar: two issues, one per span
C38_Witness ==
  /\ fn.op = "merge" /\ fn.done
  /\ Len(fn.americanFormatted) = 1
  /\ Len(fn.britishFormatted) = 2
  /\ fn.britishFormatted[1].span = fn.americanFormatted[1].span
  /\ fn.britishFormatted[1] # fn.americanFormatted[1]
  /\ fn.britishFormatted[2].category = "Grammar"
  /\ Len(fn.finalResults) = 2
  /\ fn.finalResults[1].span # fn.finalResults[2].span

\* C32: a lint message that the worker takes from its queue while an init()
\* is in flight is not let through to the engines at that moment: no engine
\* is run on it and no results message is posted.
C32_NoLintDuringInit ==
  [][(/\ wk.isInitializing
      /\ toWorker # <<>>
      /\ toWorker' = Tail(toWorker)
      /\ Head(toWorker).type = "lint")
       => /\ wk'.served = wk.served
          /\ wk'.engineLog = wk.engineLog
          /\ toMain' = toMain]_vars

\* C33: when a dispose was handled while an init() was in flight and that
\* init() has finished, the worker holds no engine and has posted no ready
\* since the dispose.
C33_DisposeDuringInitLeavesNoEngine ==
  (wk.disposedInInit /\ ~wk.isInitializing) =>
    /\ wk.americanLinter = "null"
    /\ wk.britishLinter = "null"
    /\ wk.typo = "null"
    /\ ~wk.readySince

\* C31: after the last text change, a coordinator that is Ready and not torn
\* down has eventually sent, as its last request, the document's final text
\* with the current version: from some point on, whenever it is Ready and
\* alive, the last request sent carries the document's text and the counter's
\* value.
C31_FinalTextEventuallySent ==
  <>[]((isReady /\ ~destroyed /\ worker = "live")
         => (lastSent.text = docText /\ lastSent.version = version))

\* C34: when a suggestion of a listed issue is applied, the range of the
\* document that is replaced holds exactly the text the issue was reported
\* on, the substring [span.start, span.end) of the text that was linted.
C34_SuggestionReplacesReportedText ==
  (fn.op = "suggest" /\ fn.applied > 0) => fn.replaced = fn.reported

\* C37: the ignore list only grows; accepting a new results message leaves
\* the ignore list and the focused issue key as they are, and the list then
\* shown holds no issue whose span is that of an ignored entry with the text
\* the document has in the issue's mapped range.
C37_IgnoredStaysSuppressed ==
  [][fn.op = "ignore" =>
       /\ Len(fn'.ignoredSpans) >= Len(fn.ignoredSpans)
       /\ SubSeq(fn'.ignoredSpans, 1, Len(fn.ignoredSpans)) = fn.ignoredSpans
       /\ fn'.cycles # fn.cycles =>
            /\ fn'.ignoredSpans = fn.ignoredSpans
            /\ fn'.focusedErrorKey = fn.focusedErrorKey
            /\ \A j \in 1..Len(fn'.filteredResults) :
                 LET r == fn'.filteredResults[j]
                     m == MappedRange(fn.doc, r)
                     current == textBetween(Descendants(fn.doc, 0), fn.text,
                                            m.from, m.to)
                 IN \A k \in 1..Len(fn.ignoredSpans) :
                      ~(/\ fn.ignoredSpans[k].start = r.span.start
                        /\ fn.ignoredSpans[k].end = r.span.end
                        /\ fn.ignoredSpans[k].text = current)]_vars

\* an issue was ignored and focused another; the next cycle reported the
\* ignored issue again on the same text: it is not listed, the other one is
C37_Witness ==
  /\ fn.op = "ignore"
  /\ fn.cycles = 2
  /\ fn.text = <<"a", "b">>
  /\ fn.ignoredSpans = <<IgnoredSpan(0, 1, <<"a">>)>>
  /\ fn.focusedErrorKey = [start |-> 1, end |-> 2]
  /\ fn.lintResults = <<Issue(0, 1, "Spelling", <<"x">>), Issue(1, 2, "Spelling", <<"x">>)>>
  /\ fn.filteredResults = <<Issue(1, 2, "Spelling", <<"x">>)>>

\* C35: a tab marks itself as duplicate only if another tab was open when it
\* mounted, and the tab that was opened first never becomes blocked.
C35_FirstTabNeverBlocked ==
  fn.op = "tabs" =>
    /\ \A t \in Tabs : fn.tabs[t].isDuplicateTab => fn.tabs[t].present # {}
    /\ fn.opened # <<>> => ~fn.tabs[fn.opened[1]].isDuplicateTab

\* C36: a tab whose ping reached another tab is eventually marked as duplicate
\* as long as that other tab and the tab itself stay open; a tab that never
\* had another tab open beside it never marks itself as duplicate; and a tab
\* whose cleanup has run posts no pong.
C36_DuplicateDetected ==
  /\ \A t \in Tabs : \A u \in Tabs :
       (fn.op = "tabs" /\ fn.tabs[t].pc = "mounted" /\ u \in fn.tabs[t].pinged)
         ~> (\/ fn.tabs[t].isDuplicateTab
             \/ fn.tabs[t].pc = "unmounted"
             \/ fn.tabs[u].pc = "unmounted")
  /\ [](fn.op = "tabs" =>
         \A t \in Tabs :
           (\A u \in Tabs \ {t} :
              u \notin fn.tabs[t].present /\ t \notin fn.tabs[u].present)
             => ~fn.tabs[t].isDuplicateTab)
  /\ [](fn.op = "tabs" => \A t \in Tabs : ~fn.tabs[t].pongedUnmounted)

\* C36 witness: a tab opened beside a mounted tab has been answered and has
\* marked itself, and the tab that answered has been closed since.
C36_Witness ==
  /\ fn.op = "tabs"
  /\ \E t \in Tabs : \E u \in Tabs :
       /\ u \in fn.tabs[t].present /\ u \in fn.tabs[t].pinged
       /\ fn.tabs[t].isDuplicateTab
       /\ fn.tabs[u].pc = "unmounted"

====
